---- MODULE Spec2Model ----
(***************************************************************************)
(* Model of slice_view (src/src/lib.rs): ImageDimensions, SliceView, its   *)
(* three factory functions and the Index<usize> implementation.            *)
(*                                                                         *)
(* usize is modelled as an unsigned integer of WordBits bits.  Rust's      *)
(* integer arithmetic panics on overflow when the build has overflow       *)
(* checks (the debug profile) and wraps otherwise (the release profile);   *)
(* the build is chosen in Init and both outcomes are explored.             *)
(***************************************************************************)
EXTENDS Integers, Sequences, FiniteSets, TLC

\* ------------------------------------------------------------------ bounds
WordBits == 7
MaxDim == 2
MaxIdx == 8
MaxBuf == 5

Word == 2 ^ WordBits
MaxWord == Word - 1

\* ------------------------------------------------- test fixture (lib.rs)
FRAME_64_DIM == 8

FRAME_64 ==
  << 10, 20, 30, 40, 50, 60, 70, 80,
     11, 21, 31, 41, 51, 61, 71, 81,
     12, 22, 32, 42, 52, 62, 72, 82,
     13, 23, 33, 43, 53, 63, 73, 83,
     14, 24, 34, 44, 54, 64, 74, 84,
     15, 25, 35, 45, 55, 65, 75, 85,
     16, 26, 36, 46, 56, 66, 76, 86,
     17, 27, 37, 47, 57, 67, 77, 87 >>

\* ------------------------------------------------------------ the program
VARIABLES buffer, overflow_checks, views, last

vars == << buffer, overflow_checks, views, last >>

\* ImageDimensions::new(width, height)
ImageDimensions(width, height) == [columns |-> width, rows |-> height]

\* #[derive(Default)] on ImageDimensions
ImageDimensionsDefault == [columns |-> 0, rows |-> 0]

\* usize `a + b`: ovf tells whether the sum leaves the word, val is the
\* wrapped sum
AddWord(a, b) == [ovf |-> a + b > MaxWord, val |-> (a + b) % Word]

\* usize `a * b`
MulWord(a, b) == [ovf |-> a * b > MaxWord, val |-> (a * b) % Word]

\* SliceView::new (the slice field is the one borrowed buffer of the model)
new(parent_dims, parent_start_row, parent_start_col, child_dims) ==
  [ passthru         |-> FALSE,
    parent_dims      |-> parent_dims,
    child_dims       |-> child_dims,
    parent_start_col |-> parent_start_col,
    parent_start_row |-> parent_start_row ]

new_passthru_not_flagged(parent_dims) ==
  [ passthru         |-> FALSE,
    parent_dims      |-> parent_dims,
    child_dims       |-> parent_dims,
    parent_start_col |-> 0,
    parent_start_row |-> 0 ]

\* SliceView::new_passthru
new_passthru(parent_dims) ==
  [ passthru         |-> TRUE,
    parent_dims      |-> parent_dims,
    child_dims       |-> parent_dims,
    parent_start_col |-> 0,
    parent_start_row |-> 0 ]

\* SliceView::new_split: the pair of views, or a panic when the second
\* origin overflows in a build with overflow checks
new_split(parent_dims, parent_start_row, parent_start_col, child_dims, checks) ==
  LET second_child_start_col == AddWord(parent_start_col, child_dims.columns)
  IN  IF second_child_start_col.ovf /\ checks
      THEN [kind |-> "overflow", views |-> << >>]
      ELSE [kind |-> "ok",
            views |-> << new(parent_dims, parent_start_row, parent_start_col,
                             child_dims),
                         new(parent_dims, parent_start_row,
                             second_child_start_col.val, child_dims) >>]

\* outcomes of Index::index
Elem(slice, frame_idx) ==
  IF frame_idx < Len(slice)
  THEN [kind |-> "elem", at |-> frame_idx, value |-> slice[frame_idx + 1]]
  ELSE [kind |-> "oob", at |-> frame_idx, value |-> 0]

Panic(why) == [kind |-> why, at |-> 0, value |-> 0]

index_div_mod_swapped(self, idx, slice, checks) ==
  IF ~self.passthru
  THEN IF self.child_dims.columns = 0
       THEN Panic("div_zero")
       ELSE LET child_y == idx % self.child_dims.columns
                child_x == idx \div self.child_dims.columns
                frame_x == AddWord(self.parent_start_col, child_x)
                frame_y == AddWord(self.parent_start_row, child_y)
                prod    == MulWord(frame_y.val, self.parent_dims.columns)
                sum     == AddWord(prod.val, frame_x.val)
            IN  IF checks /\ (frame_x.ovf \/ frame_y.ovf \/ prod.ovf \/ sum.ovf)
                THEN Panic("overflow")
                ELSE Elem(slice, sum.val)
  ELSE Elem(slice, idx)

index_child_stride(self, idx, slice, checks) ==
  IF ~self.passthru
  THEN IF self.child_dims.columns = 0
       THEN Panic("div_zero")
       ELSE LET child_y == idx \div self.child_dims.columns
                child_x == idx % self.child_dims.columns
                frame_x == AddWord(self.parent_start_col, child_x)
                frame_y == AddWord(self.parent_start_row, child_y)
                prod    == MulWord(frame_y.val, self.child_dims.columns)
                sum     == AddWord(prod.val, frame_x.val)
            IN  IF checks /\ (frame_x.ovf \/ frame_y.ovf \/ prod.ovf \/ sum.ovf)
                THEN Panic("overflow")
                ELSE Elem(slice, sum.val)
  ELSE Elem(slice, idx)

index_one_based(self, idx, slice, checks) ==
  IF ~self.passthru
  THEN IF self.child_dims.columns = 0
       THEN Panic("div_zero")
       ELSE LET child_y == idx \div self.child_dims.columns
                child_x == idx % self.child_dims.columns
                frame_x == AddWord(self.parent_start_col, child_x)
                frame_y == AddWord(self.parent_start_row, child_y)
                prod    == MulWord(frame_y.val, self.parent_dims.columns)
                sum     == AddWord(prod.val, frame_x.val)
                shifted == AddWord(sum.val, 1)
            IN  IF checks /\ (frame_x.ovf \/ frame_y.ovf \/ prod.ovf \/ sum.ovf
                              \/ shifted.ovf)
                THEN Panic("overflow")
                ELSE Elem(slice, shifted.val)
  ELSE Elem(slice, idx)

index_row_clamped(self, idx, slice, checks) ==
  IF ~self.passthru
  THEN IF self.child_dims.columns = 0
       THEN Panic("div_zero")
       ELSE LET child_y == idx \div self.child_dims.columns
                child_x == idx % self.child_dims.columns
                frame_x == AddWord(self.parent_start_col, child_x)
                frame_y == AddWord(self.parent_start_row, child_y)
                prod    == MulWord(frame_y.val, self.parent_dims.columns)
                sum     == AddWord(prod.val,
                             IF frame_x.val >= self.parent_dims.columns
                             THEN self.parent_dims.columns - 1
                             ELSE frame_x.val)
            IN  IF checks /\ (frame_x.ovf \/ frame_y.ovf \/ prod.ovf \/ sum.ovf)
                THEN Panic("overflow")
                ELSE Elem(slice, sum.val)
  ELSE Elem(slice, idx)

\* Index::index.  The division comes first (it panics on a zero divisor in
\* every build); an overflowing addition or multiplication panics when the
\* build checks overflow and wraps otherwise; the slice access is bounds
\* checked.
index(self, idx, slice, checks) ==
  IF ~self.passthru
  THEN IF self.child_dims.columns = 0
       THEN Panic("div_zero")
       ELSE LET child_y == idx \div self.child_dims.columns
                child_x == idx % self.child_dims.columns
                frame_x == AddWord(self.parent_start_col, child_x)
                frame_y == AddWord(self.parent_start_row, child_y)
                prod    == MulWord(frame_y.val, self.parent_dims.columns)
                sum     == AddWord(prod.val, frame_x.val)
            IN  IF checks /\ (frame_x.ovf \/ frame_y.ovf \/ prod.ovf \/ sum.ovf)
                THEN Panic("overflow")
                ELSE Elem(slice, sum.val)
  ELSE Elem(slice, idx)

\* ------------------------------------------------------- inputs explored
\* arguments of new / new_split
Geometry(parent_dims, parent_start_row, parent_start_col, child_dims) ==
  [ parent_dims      |-> parent_dims,
    parent_start_row |-> parent_start_row,
    parent_start_col |-> parent_start_col,
    child_dims       |-> child_dims ]

\* small column counts and origins, all of them
SmallVals == 0 .. MaxDim

\* small row counts (the translation never reads a row count)
SmallRows == {1, MaxDim}

\* values at the edge of the machine word
WideVals == {0, 1, MaxWord}

GeometriesOver(vals, rowvals) ==
  { Geometry(ImageDimensions(pc, pr), r, c, ImageDimensions(cc, cr)) :
      pc \in vals, pr \in rowvals, r \in vals, c \in vals, cc \in vals,
      cr \in rowvals }

\* children of the tests' FRAME_64_DIM x FRAME_64_DIM parent
FrameGeometries ==
  { Geometry(ImageDimensions(FRAME_64_DIM, FRAME_64_DIM), r, c,
             ImageDimensions(cc, cr)) :
      r \in {0, 1, 5, 6}, c \in {0, 1, 2, 5, 7}, cc \in {1, 3}, cr \in {2, 3} }

Geometries ==
  GeometriesOver(SmallVals, SmallRows) \cup GeometriesOver(WideVals, {0})
    \cup FrameGeometries

ParentDims == { g.parent_dims : g \in Geometries }

IdxVals == (0 .. MaxIdx) \cup {Len(FRAME_64) - 1, Len(FRAME_64), MaxWord}

BufLens == {0, MaxBuf, Len(FRAME_64)}

NoGeometry == Geometry(ImageDimensionsDefault, 0, 0, ImageDimensionsDefault)

Done == [kind |-> "ok", at |-> 0, value |-> 0]

\* record of the most recent call: the operation, its arguments and outcome
Call(op, geom, vi, idx, out) ==
  [op |-> op, geom |-> geom, vi |-> vi, idx |-> idx, out |-> out]

\* ------------------------------------------------------------ transitions
\* A caller owns one backing buffer (a prefix of the tests' fixture), binds
\* the view(s) returned by a factory call, queries them and lets them go out
\* of scope, as each test of lib.rs does.
Init ==
  /\ buffer \in { SubSeq(FRAME_64, 1, n) : n \in BufLens }
  /\ overflow_checks \in BOOLEAN
  /\ views = << >>
  /\ last = Call("none", NoGeometry, 0, 0, Done)

\* let view = SliceView::new(parent, row, col, &buffer, child);
New ==
  /\ views = << >>
  /\ \E g \in Geometries :
       /\ views' = << new(g.parent_dims, g.parent_start_row,
                          g.parent_start_col, g.child_dims) >>
       /\ last' = Call("new", g, 0, 0, Done)
  /\ UNCHANGED << buffer, overflow_checks >>

\* let view = SliceView::new_passthru(parent, &buffer);
NewPassthru ==
  /\ views = << >>
  /\ \E parent_dims \in ParentDims :
       /\ views' = << new_passthru(parent_dims) >>
       /\ last' = Call("new_passthru",
                       Geometry(parent_dims, 0, 0, ImageDimensionsDefault),
                       0, 0, Done)
  /\ UNCHANGED << buffer, overflow_checks >>

\* let (view0, view1) = SliceView::new_split(parent, row, col, &buffer, child);
\* a panic returns no view
NewSplit ==
  /\ views = << >>
  /\ \E g \in Geometries :
       LET res == new_split(g.parent_dims, g.parent_start_row,
                            g.parent_start_col, g.child_dims, overflow_checks)
       IN  /\ views' = res.views
           /\ last' = Call("new_split", g, 0, 0,
                           [kind |-> res.kind, at |-> 0, value |-> 0])
  /\ UNCHANGED << buffer, overflow_checks >>

IndexAdvancing ==
  /\ \E vi \in DOMAIN views, idx \in IdxVals :
       /\ last' = Call("index", NoGeometry, vi, idx,
                       index(views[vi], idx, buffer, overflow_checks))
       /\ views' = [views EXCEPT ![vi].parent_start_col =
                                    (views[vi].parent_start_col + 1) % Word]
  /\ UNCHANGED << buffer, overflow_checks >>

\* view[idx]: takes &self and returns a shared reference into the buffer;
\* a panic is caught by the caller, which keeps its views
Index ==
  /\ \E vi \in DOMAIN views, idx \in IdxVals :
       last' = Call("index", NoGeometry, vi, idx,
                    index(views[vi], idx, buffer, overflow_checks))
  /\ UNCHANGED << buffer, overflow_checks, views >>

\* the caller's bindings go out of scope; the borrow of the buffer ends
Drop ==
  /\ views # << >>
  /\ views' = << >>
  /\ last' = Call("none", NoGeometry, 0, 0, Done)
  /\ UNCHANGED << buffer, overflow_checks >>

Next ==
  \/ New
  \/ NewPassthru
  \/ NewSplit
  \/ Index
  \/ Drop

Spec == Init /\ [][Next]_vars

\* ------------------------------------------------------------ properties
TypeOK ==
  /\ Len(buffer) <= Len(FRAME_64)
  /\ overflow_checks \in BOOLEAN
  /\ Len(views) <= 2
  /\ last.op \in {"none", "new", "new_passthru", "new_split", "index"}

\* the last call was view[idx]
Indexed == last.op = "index"

\* the view the last index call was made on
QueriedView == views[last.vi]

\* the parent index the documentation gives for a child index, over the
\* unbounded integers
TranslatedIndex(v, idx) ==
  (v.parent_start_row + idx \div v.child_dims.columns) * v.parent_dims.columns
    + (v.parent_start_col + (idx % v.child_dims.columns))

Frame64Parent == ImageDimensions(FRAME_64_DIM, FRAME_64_DIM)

\* the views of tests::basic_view and tests::overwrap
BasicView == new(Frame64Parent, 1, 2, ImageDimensions(3, 2))
OverwrapView == new(Frame64Parent, 0, 7, ImageDimensions(3, 3))

\* C1: on a non-passthrough view with child columns > 0, whenever the
\* translated index (parent_start_row + idx / columns) * parent columns +
\* (parent_start_col + idx % columns) lies inside the buffer, view[idx]
\* returns the buffer element at that index; on the (3,2) child at (1,2) of
\* FRAME_64, view[0] is buffer[1*8+2] and view[5] is buffer[2*8+4] = 52.
C1_RowMajorTranslation ==
  Indexed =>
    LET v == QueriedView
        idx == last.idx
    IN  /\ ( /\ ~v.passthru
             /\ v.child_dims.columns > 0
             /\ TranslatedIndex(v, idx) < Len(buffer) )
           => /\ last.out.kind = "elem"
              /\ last.out.at = TranslatedIndex(v, idx)
              /\ last.out.value = buffer[TranslatedIndex(v, idx) + 1]
        /\ (buffer = FRAME_64 /\ v = BasicView /\ idx = 0)
           => last.out.kind = "elem" /\ last.out.value = FRAME_64[1 * 8 + 2 + 1]
        /\ (buffer = FRAME_64 /\ v = BasicView /\ idx = 5)
           => /\ last.out.kind = "elem"
              /\ last.out.value = FRAME_64[2 * 8 + 4 + 1]
              /\ last.out.value = 52

\* C2: new_passthru builds a view with child_dims = parent_dims, origin
\* (0,0) and passthru set, and view[i] is buffer[i] for every i below the
\* buffer length, whatever parent_dims is.
C2_PassthruIdentity ==
  /\ last.op = "new_passthru"
     => views = << [ passthru         |-> TRUE,
                     parent_dims      |-> last.geom.parent_dims,
                     child_dims       |-> last.geom.parent_dims,
                     parent_start_col |-> 0,
                     parent_start_row |-> 0 ] >>
  /\ (Indexed /\ QueriedView.passthru /\ last.idx < Len(buffer))
     => /\ last.out.kind = "elem"
        /\ last.out.at = last.idx
        /\ last.out.value = buffer[last.idx + 1]

C2_Witness ==
  /\ Indexed
  /\ QueriedView.passthru
  /\ QueriedView.parent_dims.columns = 0
  /\ QueriedView.parent_dims.columns * QueriedView.parent_dims.rows # Len(buffer)
  /\ last.idx = MaxBuf - 1
  /\ last.out.kind = "elem"

\* the parent indexes two views read at the same child index differ by d,
\* whenever both reads return an element
ReadsShiftedBy(v0, v1, d) ==
  \A idx \in IdxVals :
    LET o0 == index(v0, idx, buffer, overflow_checks)
        o1 == index(v1, idx, buffer, overflow_checks)
    IN  (o0.kind = "elem" /\ o1.kind = "elem") => o1.at = o0.at + d

\* C3: new_split returns exactly two non-passthrough views with the given
\* parent_dims and child_dims, the first at origin (r, c), the second at
\* origin (r, c + child_dims.columns); the second reads child_dims.columns
\* further into the parent than the first.
C3_SplitAdjacency ==
  last.op = "new_split" =>
    LET g == last.geom
    IN  /\ last.out.kind = "ok"
        /\ Len(views) = 2
        /\ views[1] = new(g.parent_dims, g.parent_start_row,
                          g.parent_start_col, g.child_dims)
        /\ views[2] = new(g.parent_dims, g.parent_start_row,
                          g.parent_start_col + g.child_dims.columns,
                          g.child_dims)
        /\ ReadsShiftedBy(views[1], views[2], g.child_dims.columns)

\* C4 as stated: on the (3,3) child at (0,7) of FRAME_64 indexing does not
\* fail, view[0] is buffer[7] = 80 and view[8] is buffer[23] = 23.
C4_OverwrapAsStated ==
  (Indexed /\ buffer = FRAME_64 /\ QueriedView = OverwrapView /\ last.idx <= 8)
  => /\ last.out.kind = "elem"
     /\ last.idx = 0 => (last.out.at = 7 /\ last.out.value = 80)
     /\ last.idx = 8 => (last.out.at = 23 /\ last.out.value = 23)

\* C4 (amended): on the (3,3) child at (0,7) of FRAME_64 indexing does not
\* fail, view[0] is buffer[7] = 80 and view[8] is buffer[25] = 23: the
\* child's later rows wrap into the following parent rows.
C4_Overwrap ==
  (Indexed /\ buffer = FRAME_64 /\ QueriedView = OverwrapView /\ last.idx <= 8)
  => /\ last.out.kind = "elem"
     /\ last.out.value = FRAME_64[last.out.at + 1]
     /\ last.idx = 0 => (last.out.at = 7 /\ last.out.value = 80)
     /\ last.idx = 8 => (last.out.at = 25 /\ last.out.value = 23)

C4_Witness ==
  /\ Indexed
  /\ buffer = FRAME_64
  /\ QueriedView = OverwrapView
  /\ last.idx = 8
  /\ last.out.value = 23

\* two index outcomes agree: the same element, or both fail
SameOutcome(a, b) ==
  IF a.kind = "elem"
  THEN b.kind = "elem" /\ b.at = a.at /\ b.value = a.value
  ELSE b.kind # "elem"

\* what new(parent_dims, 0, 0, buffer, parent_dims)[idx] does
OffsetViewOutcome(parent_dims, idx) ==
  index(new(parent_dims, 0, 0, parent_dims), idx, buffer, overflow_checks)

\* C5 as stated: for every parent_dims, buffer and idx,
\* new_passthru(parent_dims, buffer)[idx] has the same outcome as
\* new(parent_dims, 0, 0, buffer, parent_dims)[idx].
C5_PassthruEquivalenceAsStated ==
  (Indexed /\ QueriedView.passthru)
  => SameOutcome(last.out, OffsetViewOutcome(QueriedView.parent_dims, last.idx))

\* C5 (amended): for every parent_dims with columns > 0, every buffer and
\* idx, new_passthru(parent_dims, buffer)[idx] has the same outcome as
\* new(parent_dims, 0, 0, buffer, parent_dims)[idx].
C5_PassthruEquivalence ==
  (Indexed /\ QueriedView.passthru /\ QueriedView.parent_dims.columns > 0)
  => SameOutcome(last.out, OffsetViewOutcome(QueriedView.parent_dims, last.idx))

C5_Witness ==
  /\ Indexed
  /\ QueriedView.passthru
  /\ QueriedView.parent_dims.columns = 2
  /\ last.idx = 3
  /\ last.out.kind = "elem"

AtOrigin(v) == v.parent_start_row = 0 /\ v.parent_start_col = 0

\* C6 as stated: for any parent and child dimensions, a view with origin
\* (0,0) over a buffer that has a first element satisfies
\* view[0] = buffer[0].
C6_IdentityAtOriginAsStated ==
  (Indexed /\ last.idx = 0 /\ AtOrigin(QueriedView) /\ Len(buffer) > 0)
  => /\ last.out.kind = "elem"
     /\ last.out.value = buffer[1]

\* C6 (amended): for any parent dimensions and any child dimensions with
\* columns > 0 (any child dimensions at all for a passthrough view), a view
\* with origin (0,0) over a non-empty buffer satisfies view[0] = buffer[0].
C6_IdentityAtOrigin ==
  ( /\ Indexed
    /\ last.idx = 0
    /\ AtOrigin(QueriedView)
    /\ Len(buffer) > 0
    /\ (QueriedView.passthru \/ QueriedView.child_dims.columns > 0) )
  => /\ last.out.kind = "elem"
     /\ last.out.at = 0
     /\ last.out.value = buffer[1]

C6_Witness ==
  /\ Indexed
  /\ last.idx = 0
  /\ ~QueriedView.passthru
  /\ AtOrigin(QueriedView)
  /\ QueriedView.child_dims.columns = 1
  /\ QueriedView.parent_dims.columns = MaxWord
  /\ last.out.kind = "elem"

\* C7: no step changes the backing buffer; while views exist (from their
\* construction until they go out of scope) every field of every view keeps
\* its value, across successful and failing queries; repeating a query on
\* the same view with the same idx gives the same outcome.
C7_ReadOnly ==
  [][ /\ buffer' = buffer
      /\ (views # << >> /\ views' # << >>) => views' = views
      /\ (Indexed /\ last'.op = "index" /\ last'.vi = last.vi
            /\ last'.idx = last.idx)
         => last'.out = last.out ]_vars

C7_Witness ==
  /\ Indexed
  /\ Len(views) = 2
  /\ last.vi = 2
  /\ last.out.kind = "oob"
  /\ views[2].parent_start_col = views[1].parent_start_col + 3

\* C8: every call of new, new_passthru and new_split completes and returns
\* its view(s), for every combination of machine-word arguments.
C8_FactoriesInfallible ==
  last.op \in {"new", "new_passthru", "new_split"}
  => /\ last.out.kind = "ok"
     /\ views # << >>

\* C9: view[idx] fails on a non-passthrough view whose child columns is 0,
\* fails whenever the translated index (idx itself on a passthrough view) is
\* at or beyond the buffer length, and returns an element otherwise.  (Any
\* panic is taken as the failure the claim asks for.)
C9_FailLoudly ==
  Indexed =>
    LET v == QueriedView
        zero == ~v.passthru /\ v.child_dims.columns = 0
        translated == IF v.passthru THEN last.idx
                      ELSE TranslatedIndex(v, last.idx)
    IN  /\ zero => last.out.kind = "div_zero"
        /\ (~zero /\ translated >= Len(buffer)) => last.out.kind # "elem"
        /\ (~zero /\ translated < Len(buffer)) => last.out.kind = "elem"

\* the caller invariants of a view
CallerInvariants(v) ==
  /\ v.parent_start_col + v.child_dims.columns <= v.parent_dims.columns
  /\ v.parent_start_row + v.child_dims.rows <= v.parent_dims.rows
  /\ Len(buffer) >= v.parent_dims.columns * v.parent_dims.rows
  /\ v.child_dims.columns > 0

\* C10: under the caller invariants, for every idx below child columns *
\* child rows, indexing a non-passthrough view does not fail, the index read
\* is below parent columns * parent rows, it lies in a parent row of
\* [parent_start_row, parent_start_row + child rows) and a parent column of
\* [parent_start_col, parent_start_col + child columns), and no other idx
\* of the child reads the same parent position.
C10_InBounds ==
  ( /\ Indexed
    /\ ~QueriedView.passthru
    /\ CallerInvariants(QueriedView)
    /\ last.idx < QueriedView.child_dims.columns * QueriedView.child_dims.rows )
  => LET v == QueriedView
         at == last.out.at
     IN  /\ last.out.kind = "elem"
         /\ at < v.parent_dims.columns * v.parent_dims.rows
         /\ at \div v.parent_dims.columns >= v.parent_start_row
         /\ at \div v.parent_dims.columns < v.parent_start_row + v.child_dims.rows
         /\ at % v.parent_dims.columns >= v.parent_start_col
         /\ at % v.parent_dims.columns < v.parent_start_col + v.child_dims.columns
         /\ \A j \in 0 .. (v.child_dims.columns * v.child_dims.rows - 1) :
              j # last.idx
              => LET o == index(v, j, buffer, overflow_checks)
                 IN  o.kind = "elem" /\ o.at # at

C10_Witness ==
  /\ Indexed
  /\ ~QueriedView.passthru
  /\ CallerInvariants(QueriedView)
  /\ QueriedView.parent_start_row > 0
  /\ QueriedView.parent_start_col + QueriedView.child_dims.columns
       = QueriedView.parent_dims.columns
  /\ QueriedView.child_dims.columns = 3
  /\ QueriedView.child_dims.rows = 3
  /\ last.idx = 8
  /\ last.out.kind = "elem"

====
